---- MODULE Spec2Model ----
(***************************************************************************)
(* OKXPerpetualAPIOrderBookDataSource: the websocket lifecycle loop, the   *)
(* message classifier and the diff / trade / funding normalizers, the REST *)
(* order book snapshot, the three-request funding info fetch, and the      *)
(* pipeline from the wire to the output queues.                            *)
(*                                                                         *)
(* Specifications: Spec (the lifecycle loop), SpecBook (snapshot and diff  *)
(* normalization on one nonce provider), SpecFeed (one call of a trade or  *)
(* funding normalizer or of the classifier), SpecFunding (get_funding_info)*)
(* and SpecStream (the loop together with the per-channel consumers).      *)
(*                                                                         *)
(* Conventions.  A Python dict is a TLA+ function whose DOMAIN is the set  *)
(* of keys present ("k in d" is k \in DOMAIN d).  A dotted string such as  *)
(* a topic is the sequence of its "."-separated segments, so split(".")    *)
(* and ".".join are operations on that sequence.  Numbers on the wire are  *)
(* decimal strings; int()/float()/Decimal(str()) are modelled by ParseInt. *)
(* Times are kept as integers in microseconds, i.e. the Python float       *)
(* "seconds" value multiplied by 10^6.                                     *)
(***************************************************************************)
EXTENDS Integers, Sequences, FiniteSets, TLC

\* ------------------------------------------------------------------ bounds
\* websocket assistants obtained by one run of the lifecycle loop
MaxConn == 3
\* idle timeouts raised by the receive on one connection
MaxTimeouts == 2
\* stream messages delivered on one run
MaxMsgs == 2

\* ------------------------------------------------------- program constants
\* self._sleep(5.0)
BACKOFF_SECONDS == 5

NoneValue == "None"

\* self._trading_pairs, as given to the constructor
TradingPairs == <<"BTC-USDT", "ETH-USDT">>

\* the instrument lists a data source is constructed with
TradingPairLists ==
    { <<>>, <<"BTC-USDT">>, <<"BTC-USDT", "ETH-USDT">>, <<"ETH-USDT", "BTC-USDT">> }

\* self._connector.exchange_symbol_associated_to_pair (external translator)
exchange_symbol_associated_to_pair(trading_pair) ==
    CASE trading_pair = "BTC-USDT" -> "BTC-USDT-SWAP"
      [] trading_pair = "ETH-USDT" -> "ETH-USDT-SWAP"
      [] OTHER -> "UNKNOWN-SWAP"

\* self._connector.trading_pair_associated_to_exchange_symbol (external translator)
trading_pair_associated_to_exchange_symbol(symbol) ==
    CASE symbol = "BTC-USDT-SWAP" -> "BTC-USDT"
      [] symbol = "ETH-USDT-SWAP" -> "ETH-USDT"
      [] OTHER -> "UNKNOWN"

\* CONSTANTS.* channel names: used to subscribe, and matched by the classifier
WS_TRADES_ALL_CHANNEL == <<"trades-all">>
WS_TRADES_CHANNEL == <<"trades">>
WS_ORDER_BOOK_400_DEPTH_100_MS_EVENTS_CHANNEL == <<"books">>
WS_INSTRUMENTS_INFO_CHANNEL == <<"instruments">>

\* the keys of the data source's internal per-channel message queues
trade_messages_queue_key == "trade"
diff_messages_queue_key == "order_book_diff"
funding_info_messages_queue_key == "funding_info"

QueueKeys == {trade_messages_queue_key, diff_messages_queue_key,
              funding_info_messages_queue_key}

\* the classifier's result when no channel matches
NoChannel == ""

\* the outcome of a call that raised KeyError
KeyError == "KeyError"

\* ------------------------------------------------------------- variables
VARIABLES
    \* --- construction
    self_trading_pairs,  \* self._trading_pairs, the instruments to subscribe
    \* --- lifecycle loop (_listen_for_subscriptions_on_url)
    pc,             \* the await the loop is suspended at, or "raised" / "done"
    ws,             \* the local variable ws: 0 is None, else a handle id
    exc,            \* exception in flight through the finally block / raised by the task
    handles,        \* number of websocket assistants obtained so far
    open,           \* handles connected and not yet disconnected
    sent,           \* requests sent on the handle ws since it connected
    timeouts,       \* asyncio.TimeoutError raised by the receive on the handle ws
    msgs,           \* stream messages delivered so far
    message_queue,  \* self._message_queue: channel key -> raw messages
    \* --- lifecycle history
    cancelledAt,    \* the await a CancelledError was delivered at, "none" before
    retrying,       \* a non-cancellation failure happened since the last connect attempt
    failures,       \* number of non-cancellation failures caught by the loop
    delays,         \* durations of the sleeps completed since the last failure
    pumpedOn,       \* handles on which message pumping was awaited
    subscribedOn,   \* handles on which all three subscribe sends succeeded
    connected,      \* handles whose connect succeeded
    disconnects,    \* handles ws.disconnect() was awaited on, in order
    dirty,          \* handles whose disconnect raised
    callerExc,      \* what the caller of listen_for_subscriptions received
    \* --- stream history
    received,       \* the stream messages in the order they came off the wire
    queued_from,    \* per channel key: position in received of each message in message_queue
    events_from,    \* per channel key: position in received of the message behind each output event
    \* --- order book: nonce provider, REST snapshots, diff normalizer
    last_tracking_nonce,  \* self._nonce_provider._last_tracking_nonce
    diff_queue,     \* the output queue handed to _parse_order_book_diff_message
    snapshots,      \* the messages _order_book_snapshot returned, in call order
    assigned,       \* update ids in the order they were assigned, with their wire ts
    bookCall,       \* the last snapshot fetch and its response
    diffCall,       \* the _parse_order_book_diff_message call: its input, and whether
                    \* it awaits its symbol lookup
    \* --- trade and funding normalizers, classifier
    trade_queue,    \* the output queue handed to _parse_trade_message
    funding_queue,  \* the output queue handed to _parse_funding_info_message
    classified,     \* what _channel_originating_message returned
    feedCall,       \* the funding or classifier call made, its input and the queue before it;
                    \* for a funding call, whether it awaits its symbol lookup
    tradeCall,      \* the _parse_trade_message call: its input, the queue before it,
                    \* the entries it has put so far
    \* --- get_funding_info
    fundPc,         \* "idle", "gather" (awaiting asyncio.gather), "returned" or "raised"
    fundPair,       \* the trading_pair argument
    tasks,          \* the three execute_request tasks handed to asyncio.gather
    issued,         \* requests in the order they went out, with the tasks then in flight
    settled,        \* tasks in the order they completed or failed
    funding_info,   \* the FundingInfo returned
    fundExc         \* the exception get_funding_info raised

lifeVars == <<pc, ws, exc, handles, open, sent, timeouts, msgs, message_queue,
              cancelledAt, retrying, failures, delays, pumpedOn, subscribedOn,
              connected, disconnects, dirty, callerExc>>

\* the lifecycle variables other than the internal message queues
loopVars == <<pc, ws, exc, handles, open, sent, timeouts, msgs,
              cancelledAt, retrying, failures, delays, pumpedOn, subscribedOn,
              connected, disconnects, dirty, callerExc>>

bookVars == <<last_tracking_nonce, diff_queue, snapshots, assigned, bookCall, diffCall>>

feedVars == <<trade_queue, funding_queue, classified, feedCall, tradeCall>>

histVars == <<received, queued_from, events_from>>

fundVars == <<fundPc, fundPair, tasks, issued, settled, funding_info, fundExc>>

vars == <<self_trading_pairs, lifeVars, histVars, bookVars, feedVars, fundVars>>

\* ------------------------------------------------------ message classifier
Front(s) == SubSeq(s, 1, Len(s) - 1)

\* a classifier that tests the value of "success" instead of the presence of the key
channel_originating_message_SuccessValue(event_message) ==
    IF "success" \notin DOMAIN event_message \/ event_message["success"] = FALSE
    THEN IF "topic" \notin DOMAIN event_message
         THEN KeyError
         ELSE LET event_channel == Front(event_message["topic"]) IN
              IF event_channel = WS_TRADES_CHANNEL
              THEN trade_messages_queue_key
              ELSE IF event_channel = WS_ORDER_BOOK_400_DEPTH_100_MS_EVENTS_CHANNEL
              THEN diff_messages_queue_key
              ELSE IF event_channel = WS_INSTRUMENTS_INFO_CHANNEL
              THEN funding_info_messages_queue_key
              ELSE NoChannel
    ELSE NoChannel

\* _channel_originating_message; KeyError when event_message["topic"] raises
channel_originating_message(event_message) ==
    IF "success" \notin DOMAIN event_message
    THEN IF "topic" \notin DOMAIN event_message
         THEN KeyError
         ELSE LET event_channel == Front(event_message["topic"]) IN
              IF event_channel = WS_TRADES_CHANNEL
              THEN trade_messages_queue_key
              ELSE IF event_channel = WS_ORDER_BOOK_400_DEPTH_100_MS_EVENTS_CHANNEL
              THEN diff_messages_queue_key
              ELSE IF event_channel = WS_INSTRUMENTS_INFO_CHANNEL
              THEN funding_info_messages_queue_key
              ELSE NoChannel
    ELSE NoChannel

\* ------------------------------------------------------ subscription manager
SubscribeArgs(channel, trading_pairs) ==
    [i \in 1..Len(trading_pairs) |->
        [channel |-> channel,
         instId |-> exchange_symbol_associated_to_pair(trading_pairs[i])]]

\* a subscription manager that sends the order book request before the trades request
SubscribeRequests_BooksFirst(trading_pairs) ==
    << [op |-> "subscribe",
        args |-> SubscribeArgs(WS_ORDER_BOOK_400_DEPTH_100_MS_EVENTS_CHANNEL, trading_pairs)],
       [op |-> "subscribe", args |-> SubscribeArgs(WS_TRADES_ALL_CHANNEL, trading_pairs)],
       [op |-> "subscribe", args |-> SubscribeArgs(WS_INSTRUMENTS_INFO_CHANNEL, trading_pairs)] >>

\* the three requests of _subscribe_to_channels, in sending order
SubscribeRequests(trading_pairs) ==
    << [op |-> "subscribe", args |-> SubscribeArgs(WS_TRADES_ALL_CHANNEL, trading_pairs)],
       [op |-> "subscribe",
        args |-> SubscribeArgs(WS_ORDER_BOOK_400_DEPTH_100_MS_EVENTS_CHANNEL, trading_pairs)],
       [op |-> "subscribe", args |-> SubscribeArgs(WS_INSTRUMENTS_INFO_CHANNEL, trading_pairs)] >>

\* WSJSONRequest(payload="ping")
PingRequest == "ping"

\* messages the stream may deliver while the loop is pumping: an acknowledgement,
\* a trade payload of two prints, an order book update, a funding delta, and an
\* error payload without a topic
StreamMessages ==
    { [success |-> TRUE, topic |-> <<"trades", "BTC-USDT-SWAP">>],
      [topic |-> <<"trades", "BTC-USDT-SWAP">>,
       data |-> << [instId |-> "BTC-USDT-SWAP", tradeId |-> "t1", side |-> "buy",
                    sz |-> "3", px |-> "10", ts |-> "1"],
                   [instId |-> "BTC-USDT-SWAP", tradeId |-> "t2", side |-> "sell",
                    sz |-> "3", px |-> "10", ts |-> "2"] >>],
      [topic |-> <<"books", "BTC-USDT-SWAP">>,
       arg |-> [instId |-> "BTC-USDT-SWAP"],
       action |-> "update",
       data |-> << [ts |-> "1", bids |-> << <<"8", "2">> >>, asks |-> << >>] >>],
      [topic |-> <<"instruments", "BTC-USDT-SWAP">>,
       type |-> "delta",
       data |-> [update |-> << [mark_price |-> "101"] >>]],
      [event |-> "error"] }

\* the order book and feed operations are not running
NoCall == [fn |-> "none"]

BookIdle ==
    /\ last_tracking_nonce = 0
    /\ diff_queue = <<>>
    /\ snapshots = <<>>
    /\ assigned = <<>>
    /\ bookCall = NoCall
    /\ diffCall = NoCall

FeedIdle ==
    /\ trade_queue = <<>>
    /\ funding_queue = <<>>
    /\ classified = NoneValue
    /\ feedCall = NoCall
    /\ tradeCall = NoCall

\* an optional value: unset (None), or set to a value
Unset == <<>>
Set(v) == <<v>>

\* get_funding_info has not been called
FundIdle ==
    /\ fundPc = "idle"
    /\ fundPair = NoneValue
    /\ tasks = <<>>
    /\ issued = <<>>
    /\ settled = <<>>
    /\ funding_info = Unset
    /\ fundExc = Unset

\* ------------------------------------------------------------ lifecycle loop
cancelled == cancelledAt # "none"

LifeInit ==
    /\ pc = "connect"
    /\ ws = 0
    /\ exc = "none"
    /\ handles = 0
    /\ open = {}
    /\ sent = <<>>
    /\ timeouts = 0
    /\ msgs = 0
    /\ message_queue = [k \in QueueKeys |-> <<>>]
    /\ cancelledAt = "none"
    /\ retrying = FALSE
    /\ failures = 0
    /\ delays = <<>>
    /\ pumpedOn = {}
    /\ subscribedOn = {}
    /\ connected = {}
    /\ disconnects = <<>>
    /\ dirty = {}
    /\ callerExc = "none"
    /\ received = <<>>
    /\ queued_from = [k \in QueueKeys |-> <<>>]
    /\ events_from = [k \in QueueKeys |-> <<>>]

\* a retry loop that goes round again without the delay
Backoff_NoSleep ==
    /\ pc' = "finally"
    /\ exc' = "none"
    /\ retrying' = TRUE
    /\ failures' = failures + 1
    /\ delays' = <<>>
    /\ cancelledAt' = cancelledAt

\* except Exception: log, then await self._sleep(5.0)
Backoff ==
    /\ pc' = "sleep"
    /\ exc' = "none"
    /\ retrying' = TRUE
    /\ failures' = failures + 1
    /\ delays' = <<>>
    /\ cancelledAt' = cancelledAt

\* except asyncio.CancelledError: raise   (the finally block runs next)
Reraise ==
    /\ ~cancelled
    /\ pc' = "finally"
    /\ exc' = "CancelledError"
    /\ cancelledAt' = pc
    /\ UNCHANGED <<retrying, failures, delays>>

\* the try body goes on
Proceed(next) ==
    /\ pc' = next
    /\ UNCHANGED <<exc, cancelledAt, retrying, failures, delays>>

\* ws = await self._get_connected_websocket_assistant(url)
ConnectOk ==
    /\ pc = "connect"
    /\ handles < MaxConn
    /\ handles' = handles + 1
    /\ ws' = handles + 1
    /\ open' = open \cup {handles + 1}
    /\ connected' = connected \cup {handles + 1}
    /\ sent' = <<>>
    /\ timeouts' = 0
    /\ pc' = "subscribe"
    /\ retrying' = FALSE
    /\ UNCHANGED <<exc, cancelledAt, failures, delays>>
    /\ UNCHANGED <<msgs, message_queue, pumpedOn, subscribedOn,
                   disconnects, dirty, callerExc>>
    /\ UNCHANGED <<self_trading_pairs, histVars, bookVars, feedVars, fundVars>>

\* get_ws_assistant() or ws.connect() raises: ws keeps its previous value
ConnectFail ==
    /\ pc = "connect"
    /\ handles < MaxConn
    /\ handles' = handles + 1
    /\ Backoff
    /\ UNCHANGED <<ws, open, connected, sent, timeouts, msgs, message_queue,
                   pumpedOn, subscribedOn, disconnects, dirty, callerExc>>
    /\ UNCHANGED <<self_trading_pairs, histVars, bookVars, feedVars, fundVars>>

ConnectCancel ==
    /\ pc = "connect"
    /\ handles < MaxConn
    /\ handles' = handles + 1
    /\ Reraise
    /\ UNCHANGED <<ws, open, connected, sent, timeouts, msgs, message_queue,
                   pumpedOn, subscribedOn, disconnects, dirty, callerExc>>
    /\ UNCHANGED <<self_trading_pairs, histVars, bookVars, feedVars, fundVars>>

\* _subscribe_to_channels: the next of the three ws.send succeeds
SubscribeSendOk ==
    /\ pc = "subscribe"
    /\ sent' = Append(sent, SubscribeRequests(self_trading_pairs)[Len(sent) + 1])
    /\ IF Len(sent) + 1 = Len(SubscribeRequests(self_trading_pairs))
       THEN /\ Proceed("recv")
            /\ subscribedOn' = subscribedOn \cup {ws}
       ELSE /\ Proceed("subscribe")
            /\ subscribedOn' = subscribedOn
    /\ UNCHANGED <<ws, handles, open, connected, timeouts, msgs, message_queue,
                   pumpedOn, disconnects, dirty, callerExc>>
    /\ UNCHANGED <<self_trading_pairs, histVars, bookVars, feedVars, fundVars>>

\* the symbol lookup or the next ws.send raises: logged and raised again
SubscribeSendFail ==
    /\ pc = "subscribe"
    /\ Backoff
    /\ UNCHANGED <<ws, handles, open, connected, sent, timeouts, msgs, message_queue,
                   pumpedOn, subscribedOn, disconnects, dirty, callerExc>>
    /\ UNCHANGED <<self_trading_pairs, histVars, bookVars, feedVars, fundVars>>

SubscribeSendCancel ==
    /\ pc = "subscribe"
    /\ Reraise
    /\ UNCHANGED <<ws, handles, open, connected, sent, timeouts, msgs, message_queue,
                   pumpedOn, subscribedOn, disconnects, dirty, callerExc>>
    /\ UNCHANGED <<self_trading_pairs, histVars, bookVars, feedVars, fundVars>>

\* the base class pump: classify one message, queue it under its channel or drop it
RouteMessage(data) ==
    LET channel == channel_originating_message(data) IN
    IF channel \in QueueKeys
    THEN /\ message_queue' = [message_queue EXCEPT ![channel] = Append(@, data)]
         /\ queued_from' = [queued_from EXCEPT ![channel] = Append(@, Len(received) + 1)]
    ELSE UNCHANGED <<message_queue, queued_from>>

\* _process_websocket_messages: a message arrives and is classified
RecvMessage ==
    /\ pc = "recv"
    /\ msgs < MaxMsgs
    /\ \E data \in StreamMessages :
         /\ channel_originating_message(data) # KeyError
         /\ RouteMessage(data)
         /\ received' = Append(received, data)
    /\ msgs' = msgs + 1
    /\ pumpedOn' = pumpedOn \cup {ws}
    /\ Proceed("recv")
    /\ UNCHANGED <<ws, handles, open, connected, sent, timeouts,
                   subscribedOn, disconnects, dirty, callerExc>>
    /\ UNCHANGED <<self_trading_pairs, events_from, bookVars, feedVars, fundVars>>

\* a message arrives whose classification raises: the error leaves the pump
RecvMessageRaises ==
    /\ pc = "recv"
    /\ msgs < MaxMsgs
    /\ \E data \in StreamMessages :
         /\ channel_originating_message(data) = KeyError
         /\ received' = Append(received, data)
    /\ msgs' = msgs + 1
    /\ pumpedOn' = pumpedOn \cup {ws}
    /\ Backoff
    /\ UNCHANGED <<ws, handles, open, connected, sent, timeouts, message_queue,
                   subscribedOn, disconnects, dirty, callerExc>>
    /\ UNCHANGED <<self_trading_pairs, queued_from, events_from, bookVars, feedVars, fundVars>>

\* a pump without the TimeoutError handler: the idle timeout reaches the retry loop
RecvTimeout_Uncaught ==
    /\ pc = "recv"
    /\ timeouts < MaxTimeouts
    /\ timeouts' = timeouts + 1
    /\ pumpedOn' = pumpedOn \cup {ws}
    /\ Backoff
    /\ UNCHANGED <<ws, handles, open, connected, sent, msgs, message_queue,
                   subscribedOn, disconnects, dirty, callerExc>>
    /\ UNCHANGED <<self_trading_pairs, histVars, bookVars, feedVars, fundVars>>

\* except asyncio.TimeoutError: build the ping request and go on to send it
RecvTimeout ==
    /\ pc = "recv"
    /\ timeouts < MaxTimeouts
    /\ timeouts' = timeouts + 1
    /\ pumpedOn' = pumpedOn \cup {ws}
    /\ Proceed("ping")
    /\ UNCHANGED <<ws, handles, open, connected, sent, msgs, message_queue,
                   subscribedOn, disconnects, dirty, callerExc>>
    /\ UNCHANGED <<self_trading_pairs, histVars, bookVars, feedVars, fundVars>>

\* the base class pump returns (the message iterator ended): while True calls it again
RecvReturn ==
    /\ pc = "recv"
    /\ pumpedOn' = pumpedOn \cup {ws}
    /\ Proceed("recv")
    /\ UNCHANGED <<ws, handles, open, connected, sent, timeouts, msgs, message_queue,
                   subscribedOn, disconnects, dirty, callerExc>>
    /\ UNCHANGED <<self_trading_pairs, histVars, bookVars, feedVars, fundVars>>

\* the receive raises another exception
RecvFail ==
    /\ pc = "recv"
    /\ pumpedOn' = pumpedOn \cup {ws}
    /\ Backoff
    /\ UNCHANGED <<ws, handles, open, connected, sent, timeouts, msgs, message_queue,
                   subscribedOn, disconnects, dirty, callerExc>>
    /\ UNCHANGED <<self_trading_pairs, histVars, bookVars, feedVars, fundVars>>

RecvCancel ==
    /\ pc = "recv"
    /\ pumpedOn' = pumpedOn \cup {ws}
    /\ Reraise
    /\ UNCHANGED <<ws, handles, open, connected, sent, timeouts, msgs, message_queue,
                   subscribedOn, disconnects, dirty, callerExc>>
    /\ UNCHANGED <<self_trading_pairs, histVars, bookVars, feedVars, fundVars>>

\* await websocket_assistant.send(ping_request)
PingOk ==
    /\ pc = "ping"
    /\ sent' = Append(sent, PingRequest)
    /\ Proceed("recv")
    /\ UNCHANGED <<ws, handles, open, connected, timeouts, msgs, message_queue,
                   pumpedOn, subscribedOn, disconnects, dirty, callerExc>>
    /\ UNCHANGED <<self_trading_pairs, histVars, bookVars, feedVars, fundVars>>

PingFail ==
    /\ pc = "ping"
    /\ Backoff
    /\ UNCHANGED <<ws, handles, open, connected, sent, timeouts, msgs, message_queue,
                   pumpedOn, subscribedOn, disconnects, dirty, callerExc>>
    /\ UNCHANGED <<self_trading_pairs, histVars, bookVars, feedVars, fundVars>>

PingCancel ==
    /\ pc = "ping"
    /\ Reraise
    /\ UNCHANGED <<ws, handles, open, connected, sent, timeouts, msgs, message_queue,
                   pumpedOn, subscribedOn, disconnects, dirty, callerExc>>
    /\ UNCHANGED <<self_trading_pairs, histVars, bookVars, feedVars, fundVars>>

\* a loop that goes back to connecting after the delay without the finally block
SleepOk_SkipsFinally ==
    /\ pc = "sleep"
    /\ delays' = Append(delays, BACKOFF_SECONDS)
    /\ pc' = "connect"
    /\ UNCHANGED <<exc, cancelledAt, retrying, failures>>
    /\ UNCHANGED <<ws, handles, open, connected, sent, timeouts, msgs, message_queue,
                   pumpedOn, subscribedOn, disconnects, dirty, callerExc>>
    /\ UNCHANGED <<self_trading_pairs, histVars, bookVars, feedVars, fundVars>>

\* await self._sleep(5.0) completes
SleepOk ==
    /\ pc = "sleep"
    /\ delays' = Append(delays, BACKOFF_SECONDS)
    /\ pc' = "finally"
    /\ UNCHANGED <<exc, cancelledAt, retrying, failures>>
    /\ UNCHANGED <<ws, handles, open, connected, sent, timeouts, msgs, message_queue,
                   pumpedOn, subscribedOn, disconnects, dirty, callerExc>>
    /\ UNCHANGED <<self_trading_pairs, histVars, bookVars, feedVars, fundVars>>

\* the sleep raises inside the except block: nothing catches it
SleepFail ==
    /\ pc = "sleep"
    /\ exc' = "Exception"
    /\ pc' = "finally"
    /\ UNCHANGED <<cancelledAt, retrying, failures, delays>>
    /\ UNCHANGED <<ws, handles, open, connected, sent, timeouts, msgs, message_queue,
                   pumpedOn, subscribedOn, disconnects, dirty, callerExc>>
    /\ UNCHANGED <<self_trading_pairs, histVars, bookVars, feedVars, fundVars>>

SleepCancel ==
    /\ pc = "sleep"
    /\ Reraise
    /\ UNCHANGED <<ws, handles, open, connected, sent, timeouts, msgs, message_queue,
                   pumpedOn, subscribedOn, disconnects, dirty, callerExc>>
    /\ UNCHANGED <<self_trading_pairs, histVars, bookVars, feedVars, fundVars>>

\* after the finally block: the exception in flight goes on, else the next iteration
AfterFinally ==
    /\ pc' = IF exc = "none" THEN "connect" ELSE "raised"
    /\ UNCHANGED <<exc, cancelledAt>>

\* finally: ws is None, nothing to disconnect
FinallyNoWs ==
    /\ pc = "finally"
    /\ ws = 0
    /\ AfterFinally
    /\ UNCHANGED <<retrying, failures, delays>>
    /\ UNCHANGED <<ws, handles, open, connected, sent, timeouts, msgs, message_queue,
                   pumpedOn, subscribedOn, disconnects, dirty, callerExc>>
    /\ UNCHANGED <<self_trading_pairs, histVars, bookVars, feedVars, fundVars>>

\* finally: ws and await ws.disconnect()
DisconnectOk ==
    /\ pc = "finally"
    /\ ws # 0
    /\ open' = open \ {ws}
    /\ disconnects' = Append(disconnects, ws)
    /\ AfterFinally
    /\ UNCHANGED <<retrying, failures, delays>>
    /\ UNCHANGED <<ws, handles, connected, sent, timeouts, msgs, message_queue,
                   pumpedOn, subscribedOn, dirty, callerExc>>
    /\ UNCHANGED <<self_trading_pairs, histVars, bookVars, feedVars, fundVars>>

\* the disconnect raises: the exception replaces the one in flight and leaves the loop
DisconnectFail ==
    /\ pc = "finally"
    /\ ws # 0
    /\ disconnects' = Append(disconnects, ws)
    /\ dirty' = dirty \cup {ws}
    /\ exc' = "Exception"
    /\ pc' = "raised"
    /\ UNCHANGED <<cancelledAt, retrying, failures, delays>>
    /\ UNCHANGED <<ws, handles, open, connected, sent, timeouts, msgs, message_queue,
                   pumpedOn, subscribedOn, callerExc>>
    /\ UNCHANGED <<self_trading_pairs, histVars, bookVars, feedVars, fundVars>>

DisconnectCancel ==
    /\ pc = "finally"
    /\ ws # 0
    /\ ~cancelled
    /\ disconnects' = Append(disconnects, ws)
    /\ dirty' = dirty \cup {ws}
    /\ exc' = "CancelledError"
    /\ cancelledAt' = pc
    /\ pc' = "raised"
    /\ UNCHANGED <<retrying, failures, delays>>
    /\ UNCHANGED <<ws, handles, open, connected, sent, timeouts, msgs, message_queue,
                   pumpedOn, subscribedOn, callerExc>>
    /\ UNCHANGED <<self_trading_pairs, histVars, bookVars, feedVars, fundVars>>

\* listen_for_subscriptions: awaiting the gathered task raises what the task raised
ListenForSubscriptionsRaises ==
    /\ pc = "raised"
    /\ callerExc' = exc
    /\ pc' = "done"
    /\ UNCHANGED <<exc, cancelledAt, retrying, failures, delays>>
    /\ UNCHANGED <<ws, handles, open, connected, sent, timeouts, msgs, message_queue,
                   pumpedOn, subscribedOn, disconnects, dirty>>
    /\ UNCHANGED <<self_trading_pairs, histVars, bookVars, feedVars, fundVars>>

Next ==
    \/ ConnectOk \/ ConnectFail \/ ConnectCancel
    \/ SubscribeSendOk \/ SubscribeSendFail \/ SubscribeSendCancel
    \/ RecvMessage \/ RecvMessageRaises \/ RecvTimeout \/ RecvReturn
    \/ RecvFail \/ RecvCancel
    \/ PingOk \/ PingFail \/ PingCancel
    \/ SleepOk \/ SleepFail \/ SleepCancel
    \/ FinallyNoWs \/ DisconnectOk \/ DisconnectFail \/ DisconnectCancel
    \/ ListenForSubscriptionsRaises

Init ==
    /\ self_trading_pairs \in TradingPairLists
    /\ LifeInit
    /\ BookIdle
    /\ FeedIdle
    /\ FundIdle

Spec == Init /\ [][Next]_vars

\* =========================================================================
\* Order book: nonce provider, REST snapshot, diff normalizer
\* =========================================================================
\* ------------------------------------------------------------------ bounds
\* number of distinct wire timestamps
MaxTs == 2
\* longest data array of a payload
MaxData == 2
\* order book calls (snapshot fetches and diff normalizations) on one run
MaxBookOps == 3

\* int(s), float(s), Decimal(str(s)) of a decimal string s of a number in 0 .. 127
ParseInt(s) == CHOOSE n \in 0..127 : ToString(n) = s

\* one decimal digit
Digit(c) == CHOOSE d \in 0..9 : ToString(d) = c

\* the number a string of decimal digits writes
RECURSIVE DigitsValue(_)
DigitsValue(s) ==
    IF Len(s) = 0 THEN 0
    ELSE DigitsValue(SubSeq(s, 1, Len(s) - 1)) * 10 + Digit(SubSeq(s, Len(s), Len(s)))

\* the numbers m in 0 .. 127 whose double product m * 1e-6, multiplied by 1e6 again,
\* lies below m: int(m * 1e-6 * 1e6) = m - 1 (15 * 1e-6 * 1e6 = 14.999999999999998)
BelowMicrosecond ==
    { 15, 19, 25, 30, 33, 38, 43, 45, 50, 55, 57, 60, 66, 71, 76, 81, 85, 86, 90, 91,
      95, 100, 105, 110, 114, 115, 119, 120, 123 }

\* the float t = mantissa * 1e-negExp seconds (mantissa in 0 .. 127, negExp 0, 3 or 6),
\* held as its whole microseconds int(t * 1e6); the products by 1 and by 1e-3 are
\* whole, the product by 1e-6 is one short for the mantissas of BelowMicrosecond
Seconds(mantissa, negExp) ==
    IF negExp = 6 /\ mantissa \in BelowMicrosecond
    THEN mantissa - 1
    ELSE mantissa * 10^(6 - negExp)

\* NonceCreator.for_microseconds(): nonces per second
MICROSECONDS_PRECISION == 10^6

\* NonceCreator.get_tracking_nonce(timestamp): int(timestamp * precision) when that
\* is above the last nonce, else the last nonce plus one (timestamp in whole microseconds)
get_tracking_nonce(timestamp, last) ==
    LET nonce_candidate == timestamp \div (10^6 \div MICROSECONDS_PRECISION) IN
    IF nonce_candidate > last THEN nonce_candidate ELSE last + 1

\* [tuple(map(float, row[:2])) for row in rows]
PriceLevels(rows) ==
    [i \in 1..Len(rows) |-> <<ParseInt(rows[i][1]), ParseInt(rows[i][2])>>]

\* _get_bids_and_asks_from_rest_msg_data
get_bids_and_asks_from_rest_msg_data(snapshot) ==
    <<PriceLevels(snapshot["bids"]), PriceLevels(snapshot["asks"])>>

\* _get_bids_and_asks_from_ws_msg_data
get_bids_and_asks_from_ws_msg_data(snapshot) ==
    <<PriceLevels(snapshot["bids"]), PriceLevels(snapshot["asks"])>>

\* order book sides as the exchange sends them: [price, size, extra fields...]
WireBooks ==
    { [bids |-> << <<"10", "1", "0", "2">>, <<"9", "3", "0", "1">> >>,
       asks |-> << <<"11", "2", "0", "1">> >>],
      [bids |-> << <<"8", "2">> >>,
       asks |-> << >>] }

\* the wire timestamps of order book records: 1, and from 15 on, the first
\* timestamp whose float product is short of the microsecond
WireTimestamps == {1} \cup { 13 + t : t \in 2..MaxTs }

\* one record of a "data" array
BookRecords ==
    { [ts |-> ToString(t), bids |-> b["bids"], asks |-> b["asks"]] :
        t \in WireTimestamps, b \in WireBooks }

\* a record that follows the first one in a "data" array
TrailingRecord ==
    [ts |-> "9", bids |-> << <<"7", "5">> >>, asks |-> << <<"12", "4">> >>]

\* "data" arrays of 1 .. MaxData records
DiffDatas ==
    { <<r>> \o [i \in 1..n |-> TrailingRecord] : r \in BookRecords, n \in 0..(MaxData - 1) }

\* websocket order book payloads: with and without "action"
DiffMessages ==
      { [arg |-> [instId |-> "BTC-USDT-SWAP"], action |-> a, data |-> d] :
            a \in {"update", "snapshot"}, d \in DiffDatas }
      \cup
      { [arg |-> [instId |-> "BTC-USDT-SWAP"], data |-> d] : d \in DiffDatas }

\* REST order book responses
SnapshotResponses == { [data |-> <<r>>] : r \in BookRecords }

\* OrderBookMessage(message_type, content, timestamp)
OrderBookMessage(message_type, content, timestamp) ==
    [type |-> message_type, content |-> content, timestamp |-> timestamp]

\* raw_message.get("action", None)
diff_event_type(raw_message) ==
    IF "action" \in DOMAIN raw_message THEN raw_message["action"] ELSE NoneValue

\* timestamp_us = int(raw_message["data"][0]["ts"])
diff_timestamp_us(raw_message) == ParseInt(raw_message["data"][1]["ts"])

\* a normalizer that takes the exchange timestamp as the update id
diff_update_id_FromTimestamp(raw_message, last) == diff_timestamp_us(raw_message)

\* update_id = self._nonce_provider.get_tracking_nonce(timestamp=timestamp_us * 1e-6):
\* the nonce candidate is int(timestamp_us * 1e-6 * 1e6), which is timestamp_us or,
\* where the float product falls short, timestamp_us - 1
diff_update_id(raw_message, last) ==
    get_tracking_nonce(Seconds(diff_timestamp_us(raw_message), 6), last)

\* a normalizer that reads the last data record instead of the first
diff_message_LastRecord(raw_message, update_id) ==
    LET diffs_data == raw_message["data"][Len(raw_message["data"])]
        book == get_bids_and_asks_from_ws_msg_data(diffs_data)
    IN  OrderBookMessage("DIFF",
            [trading_pair |->
                trading_pair_associated_to_exchange_symbol(raw_message["arg"]["instId"]),
             update_id |-> update_id,
             bids |-> book[1],
             asks |-> book[2]],
            Seconds(ParseInt(diffs_data["ts"]), 6))

\* the Diff event _parse_order_book_diff_message builds for an "update" payload
diff_message(raw_message, update_id) ==
    LET diffs_data == raw_message["data"][1]
        book == get_bids_and_asks_from_ws_msg_data(diffs_data)
    IN  OrderBookMessage("DIFF",
            [trading_pair |->
                trading_pair_associated_to_exchange_symbol(raw_message["arg"]["instId"]),
             update_id |-> update_id,
             bids |-> book[1],
             asks |-> book[2]],
            Seconds(diff_timestamp_us(raw_message), 6))

\* the Snapshot event _order_book_snapshot builds from a REST response
snapshot_message(trading_pair, snapshot_response, update_id) ==
    LET snapshot_data == snapshot_response["data"][1]
        book == get_bids_and_asks_from_rest_msg_data(snapshot_data)
    IN  OrderBookMessage("SNAPSHOT",
            [trading_pair |-> trading_pair,
             update_id |-> update_id,
             bids |-> book[1],
             asks |-> book[2]],
            Seconds(ParseInt(snapshot_data["ts"]), 0))

\* a _parse_order_book_diff_message call awaits its symbol lookup (line 231)
DiffCallSuspended ==
    /\ diffCall # NoCall
    /\ diffCall.pending

\* _parse_order_book_diff_message(raw_message, message_queue) is called: a payload
\* whose action is "update" takes it to the await of the symbol lookup, any other
\* payload makes it return; from is the position in received of the message, 0
\* for a payload given directly
DiffCallBegins(raw_message, from) ==
    diffCall' = [fn |-> "diff", raw |-> raw_message,
                 pending |-> (diff_event_type(raw_message) = "update"), from |-> from]

\* _parse_order_book_diff_message(raw_message, message_queue) is called
ParseOrderBookDiffMessage ==
    /\ Len(assigned) < MaxBookOps
    /\ ~DiffCallSuspended
    /\ \E raw_message \in DiffMessages : DiffCallBegins(raw_message, 0)
    /\ UNCHANGED <<last_tracking_nonce, diff_queue, snapshots, assigned, bookCall>>
    /\ UNCHANGED <<self_trading_pairs, lifeVars, histVars, feedVars, fundVars>>

\* the symbol lookup of _parse_order_book_diff_message returns: the update id is
\* taken from the nonce provider, the Diff event is built and put on the queue
DiffLookupReturns ==
    /\ DiffCallSuspended
    /\ LET raw_message == diffCall.raw
           update_id == diff_update_id(raw_message, last_tracking_nonce)
       IN  /\ last_tracking_nonce' = update_id
           /\ assigned' = Append(assigned,
                  [kind |-> "diff", ts |-> raw_message["data"][1]["ts"],
                   update_id |-> update_id])
           /\ diff_queue' = Append(diff_queue, diff_message(raw_message, update_id))
    /\ diffCall' = [diffCall EXCEPT !.pending = FALSE]
    /\ events_from' =
          IF diffCall.from = 0 THEN events_from
          ELSE [events_from EXCEPT ![diff_messages_queue_key] = Append(@, diffCall.from)]
    /\ UNCHANGED <<snapshots, bookCall>>
    /\ UNCHANGED <<received, queued_from>>
    /\ UNCHANGED <<self_trading_pairs, lifeVars, feedVars, fundVars>>

\* _order_book_snapshot(trading_pair), the REST response being snapshot_response
OrderBookSnapshot ==
    /\ Len(assigned) + (IF DiffCallSuspended THEN 1 ELSE 0) < MaxBookOps
    /\ \E snapshot_response \in SnapshotResponses :
         LET timestamp == Seconds(ParseInt(snapshot_response["data"][1]["ts"]), 0)
             update_id == get_tracking_nonce(timestamp, last_tracking_nonce)
         IN  /\ bookCall' = [fn |-> "snapshot", raw |-> snapshot_response]
             /\ last_tracking_nonce' = update_id
             /\ assigned' = Append(assigned,
                    [kind |-> "snapshot", ts |-> snapshot_response["data"][1]["ts"],
                     update_id |-> update_id])
             /\ snapshots' = Append(snapshots,
                    snapshot_message(TradingPairs[1], snapshot_response, update_id))
    /\ UNCHANGED <<diff_queue, diffCall>>
    /\ UNCHANGED <<self_trading_pairs, lifeVars, histVars, feedVars, fundVars>>

BookNext == ParseOrderBookDiffMessage \/ DiffLookupReturns \/ OrderBookSnapshot

BookInit ==
    /\ self_trading_pairs = TradingPairs
    /\ LifeInit
    /\ BookIdle
    /\ FeedIdle
    /\ FundIdle

SpecBook == BookInit /\ [][BookNext]_vars

\* =========================================================================
\* Trade and funding normalizers, message classifier
\* =========================================================================
\* TradeType.BUY.value, TradeType.SELL.value
TradeType_BUY == 1
TradeType_SELL == 2

\* one entry of a trade payload's "data" array
TradeEntries ==
    { [instId |-> "BTC-USDT-SWAP", tradeId |-> id, side |-> sd,
       sz |-> "3", px |-> "10", ts |-> ToString(t)] :
        id \in {"t1", "t2"}, sd \in {"buy", "sell"}, t \in 1..MaxTs }

SeqsUpTo(S, n) == UNION { [1..k -> S] : k \in 0..n }

TradeMessages == { [data |-> d] : d \in SeqsUpTo(TradeEntries, MaxData) }

\* float(TradeType.BUY.value) if trade_data["side"] == "buy" else float(TradeType.SELL.value)
trade_type(trade_data) ==
    IF trade_data["side"] = "buy" THEN TradeType_BUY ELSE TradeType_SELL

\* the Trade event built from one entry of the data array
trade_message(trade_data) ==
    OrderBookMessage("TRADE",
        [trade_id |-> trade_data["tradeId"],
         trading_pair |-> trading_pair_associated_to_exchange_symbol(trade_data["instId"]),
         trade_type |-> trade_type(trade_data),
         amount |-> trade_data["sz"],
         price |-> trade_data["px"]],
        Seconds(ParseInt(trade_data["ts"]), 3))

\* a loop that puts the entries on the queue last first
trade_messages_Reversed(raw_message) ==
    LET trade_updates == raw_message["data"] IN
    [i \in 1..Len(trade_updates) |->
        trade_message(trade_updates[Len(trade_updates) + 1 - i])]

\* for trade_data in raw_message["data"]: ... message_queue.put_nowait(trade_message)
trade_messages(raw_message) ==
    LET trade_updates == raw_message["data"] IN
    [i \in 1..Len(trade_updates) |-> trade_message(trade_updates[i])]

\* the wire values of a funding update entry, by key
FundingWire ==
    [index_price |-> "100", mark_price |-> "101",
     next_funding_time |-> "1970-01-01T00:01:00Z",
     predicted_funding_rate_e6 |-> "25"]

\* entries holding any subset of the four keys
FundingEntries ==
    { [k \in keys |-> FundingWire[k]] : keys \in SUBSET DOMAIN FundingWire }

FundingMessages ==
    { [type |-> t, topic |-> <<"instruments", "BTC-USDT-SWAP">>, data |-> [update |-> u]] :
        t \in {"delta", "snapshot"}, u \in SeqsUpTo(FundingEntries, MaxData) }

\* days from 1970-01-01 to the day year-month-day of the Gregorian calendar
days_from_civil(year, month, day) ==
    LET y == IF month <= 2 THEN year - 1 ELSE year
        era == y \div 400
        yoe == y - era * 400
        mp == IF month > 2 THEN month - 3 ELSE month + 9
        doy == (153 * mp + 2) \div 5 + day - 1
        doe == yoe * 365 + yoe \div 4 - yoe \div 100 + doy
    IN  era * 146097 + doe - 719468

\* int(pd.Timestamp(s, tz="UTC").timestamp()) of a string s written
\* YYYY-MM-DDTHH:MM:SSZ, from 1970 up to the last second a 32-bit integer holds
utc_timestamp(s) ==
    days_from_civil(DigitsValue(SubSeq(s, 1, 4)), DigitsValue(SubSeq(s, 6, 7)),
                    DigitsValue(SubSeq(s, 9, 10))) * 86400
    + DigitsValue(SubSeq(s, 12, 13)) * 3600
    + DigitsValue(SubSeq(s, 15, 16)) * 60
    + DigitsValue(SubSeq(s, 18, 19))

\* Decimal(str(v)) * Decimal(1e-6): v units of Decimal(1e-6)
rate_from_e6(v) == [units |-> ParseInt(v), unit |-> "Decimal(1e-6)"]

\* an update record whose absent fields are zero instead of unset
funding_info_update_ZeroDefaults(trading_pair, entry) ==
    [trading_pair |-> trading_pair,
     index_price |->
        IF "index_price" \in DOMAIN entry
        THEN Set(ParseInt(entry["index_price"])) ELSE Set(0),
     mark_price |->
        IF "mark_price" \in DOMAIN entry
        THEN Set(ParseInt(entry["mark_price"])) ELSE Set(0),
     next_funding_utc_timestamp |->
        IF "next_funding_time" \in DOMAIN entry
        THEN Set(utc_timestamp(entry["next_funding_time"])) ELSE Set(0),
     rate |->
        IF "predicted_funding_rate_e6" \in DOMAIN entry
        THEN Set(rate_from_e6(entry["predicted_funding_rate_e6"])) ELSE Set(0)]

\* FundingInfoUpdate(trading_pair) with the fields the entry holds set
funding_info_update(trading_pair, entry) ==
    [trading_pair |-> trading_pair,
     index_price |->
        IF "index_price" \in DOMAIN entry
        THEN Set(ParseInt(entry["index_price"])) ELSE Unset,
     mark_price |->
        IF "mark_price" \in DOMAIN entry
        THEN Set(ParseInt(entry["mark_price"])) ELSE Unset,
     next_funding_utc_timestamp |->
        IF "next_funding_time" \in DOMAIN entry
        THEN Set(utc_timestamp(entry["next_funding_time"])) ELSE Unset,
     rate |->
        IF "predicted_funding_rate_e6" \in DOMAIN entry
        THEN Set(rate_from_e6(entry["predicted_funding_rate_e6"])) ELSE Unset]

\* the records _parse_funding_info_message puts on the queue
funding_info_updates(raw_message) ==
    IF raw_message["type"] = "delta"
    THEN LET symbol == raw_message["topic"][Len(raw_message["topic"])]
             trading_pair == trading_pair_associated_to_exchange_symbol(symbol)
             entries == raw_message["data"]["update"]
         IN  [i \in 1..Len(entries) |-> funding_info_update(trading_pair, entries[i])]
    ELSE <<>>

\* payloads given to the classifier
ClassifierTopics ==
    { <<"trades", "BTC-USDT-SWAP">>, <<"books", "BTC-USDT-SWAP">>,
      <<"instruments", "BTC-USDT-SWAP">>, <<"tickers", "BTC-USDT-SWAP">>,
      <<"trades">>, <<"public", "trades", "BTC-USDT-SWAP">> }

ClassifierMessages ==
    { [topic |-> t] : t \in ClassifierTopics }
    \cup { [success |-> b, topic |-> t] : b \in BOOLEAN, t \in ClassifierTopics }
    \cup { [success |-> b, ret_msg |-> "x"] : b \in BOOLEAN }
    \cup { [event |-> "error"] }

\* events already on an output queue when a normalizer is called
PriorTrade ==
    OrderBookMessage("TRADE",
        [trade_id |-> "t0", trading_pair |-> "ETH-USDT", trade_type |-> TradeType_SELL,
         amount |-> "1", price |-> "1"], 0)

PriorFunding ==
    [trading_pair |-> "ETH-USDT", index_price |-> Unset, mark_price |-> Unset,
     next_funding_utc_timestamp |-> Unset, rate |-> Unset]

FeedInit ==
    /\ self_trading_pairs = TradingPairs
    /\ LifeInit
    /\ BookIdle
    /\ trade_queue \in {<<>>, <<PriorTrade>>}
    /\ funding_queue \in {<<>>, <<PriorFunding>>}
    /\ classified = NoneValue
    /\ feedCall = NoCall
    /\ tradeCall = NoCall
    /\ FundIdle

\* a _parse_trade_message call is in its loop: it awaits the symbol lookup of
\* the next entry, or is about to
TradeCallSuspended ==
    /\ tradeCall # NoCall
    /\ tradeCall.done < Len(tradeCall.raw["data"])

\* _parse_trade_message(raw_message, message_queue) is called and reaches its loop;
\* from is the position in received of the message, 0 for a payload given directly
TradeCallBegins(raw_message, from) ==
    /\ tradeCall' = [fn |-> "trade", raw |-> raw_message, before |-> trade_queue,
                     done |-> 0, from |-> from]
    /\ UNCHANGED trade_queue

\* _parse_trade_message(raw_message, message_queue) is called
ParseTradeMessage ==
    /\ feedCall = NoCall
    /\ tradeCall = NoCall
    /\ \E raw_message \in TradeMessages : TradeCallBegins(raw_message, 0)
    /\ UNCHANGED <<funding_queue, classified, feedCall>>
    /\ UNCHANGED <<self_trading_pairs, lifeVars, histVars, bookVars, fundVars>>

\* one turn of the loop of _parse_trade_message: the symbol lookup of the next
\* entry has returned, its Trade event is built and put on the queue
TradePut ==
    /\ TradeCallSuspended
    /\ trade_queue' = Append(trade_queue, trade_messages(tradeCall.raw)[tradeCall.done + 1])
    /\ tradeCall' = [tradeCall EXCEPT !.done = @ + 1]
    /\ events_from' =
          IF tradeCall.from = 0 THEN events_from
          ELSE [events_from EXCEPT ![trade_messages_queue_key] = Append(@, tradeCall.from)]
    /\ UNCHANGED <<funding_queue, classified, feedCall>>
    /\ UNCHANGED <<received, queued_from>>
    /\ UNCHANGED <<self_trading_pairs, lifeVars, bookVars, fundVars>>

\* the funding payload another task has normalized while a trade call is suspended
ConcurrentFundingMessages ==
    { [type |-> "delta", topic |-> <<"instruments", "BTC-USDT-SWAP">>,
       data |-> [update |-> << [mark_price |-> FundingWire["mark_price"]],
                               [index_price |-> FundingWire["index_price"]] >>]] }

\* a _parse_funding_info_message call awaits its symbol lookup (line 274)
FundingCallSuspended ==
    /\ feedCall.fn = "funding"
    /\ feedCall.pending

\* _parse_funding_info_message(raw_message, message_queue) is called: a payload of
\* type "delta" takes it to the await of the symbol lookup, any other payload
\* makes it return; from is the position in received of the message, 0 for a
\* payload given directly
FundingCallBegins(raw_message, from) ==
    feedCall' = [fn |-> "funding", raw |-> raw_message, before |-> funding_queue,
                 pending |-> (raw_message["type"] = "delta"), from |-> from]

\* _parse_funding_info_message(raw_message, message_queue) is called, on its own or
\* by another task between two turns of the loop of a trade call
ParseFundingInfoMessage ==
    /\ feedCall = NoCall
    /\ tradeCall = NoCall \/ TradeCallSuspended
    /\ \E raw_message \in (IF tradeCall = NoCall THEN FundingMessages
                            ELSE ConcurrentFundingMessages) :
         FundingCallBegins(raw_message, 0)
    /\ UNCHANGED <<trade_queue, funding_queue, classified, tradeCall>>
    /\ UNCHANGED <<self_trading_pairs, lifeVars, histVars, bookVars, fundVars>>

\* the symbol lookup of _parse_funding_info_message returns: one update record per
\* entry is built and put on the queue
FundingLookupReturns ==
    /\ FundingCallSuspended
    /\ LET events == funding_info_updates(feedCall.raw) IN
       /\ funding_queue' = funding_queue \o events
       /\ events_from' =
             IF feedCall.from = 0 THEN events_from
             ELSE [events_from EXCEPT ![funding_info_messages_queue_key] =
                                          @ \o [i \in 1..Len(events) |-> feedCall.from]]
    /\ feedCall' = [feedCall EXCEPT !.pending = FALSE]
    /\ UNCHANGED <<trade_queue, classified, tradeCall>>
    /\ UNCHANGED <<received, queued_from>>
    /\ UNCHANGED <<self_trading_pairs, lifeVars, bookVars, fundVars>>

\* _channel_originating_message(event_message)
ChannelOriginatingMessage ==
    /\ feedCall = NoCall
    /\ tradeCall = NoCall
    /\ \E event_message \in ClassifierMessages :
         /\ feedCall' = [fn |-> "classify", raw |-> event_message, before |-> <<>>]
         /\ classified' = channel_originating_message(event_message)
    /\ UNCHANGED <<trade_queue, funding_queue, tradeCall>>
    /\ UNCHANGED <<self_trading_pairs, lifeVars, histVars, bookVars, fundVars>>

FeedNext ==
    \/ ParseTradeMessage
    \/ TradePut
    \/ ParseFundingInfoMessage
    \/ FundingLookupReturns
    \/ ChannelOriginatingMessage

SpecFeed == FeedInit /\ [][FeedNext]_vars

\* =========================================================================
\* The stream pipeline: the lifecycle loop fills the internal per-channel
\* queues, and one consumer task per channel takes the messages off its queue
\* one at a time and hands each to the channel's normalizer.  A normalizer
\* awaits the symbol lookup before it puts anything (the trade normalizer before
\* each event), so that the steps of the other tasks fall between the take of a
\* message and the put of its events.  The pipeline is
\* followed for as long as the loop runs: every failure the loop retries is
\* there, a cancellation or an exception that ends the loop is not.
\* =========================================================================
\* the message at the head of a channel's internal queue is taken off it
TakeMessage(channel) ==
    /\ message_queue[channel] # <<>>
    /\ message_queue' = [message_queue EXCEPT ![channel] = Tail(@)]
    /\ queued_from' = [queued_from EXCEPT ![channel] = Tail(@)]

\* a consumer that takes the newest message of its queue instead of the oldest
ListenForTrades_NewestFirst ==
    /\ ~TradeCallSuspended
    /\ message_queue[trade_messages_queue_key] # <<>>
    /\ LET channel == trade_messages_queue_key
           n == Len(message_queue[channel])
       IN  /\ message_queue' = [message_queue EXCEPT ![channel] = Front(@)]
           /\ queued_from' = [queued_from EXCEPT ![channel] = Front(@)]
           /\ TradeCallBegins(message_queue[channel][n], queued_from[channel][n])
    /\ UNCHANGED <<received, events_from, funding_queue, classified, feedCall>>
    /\ UNCHANGED <<self_trading_pairs, loopVars, bookVars, fundVars>>

\* listen_for_trades: trade_event = await message_queue.get();
\* await self._parse_trade_message(raw_message=trade_event, message_queue=output);
\* the next message is taken when the call for the one before it has returned
ListenForTrades ==
    /\ ~TradeCallSuspended
    /\ TakeMessage(trade_messages_queue_key)
    /\ TradeCallBegins(Head(message_queue[trade_messages_queue_key]),
                       Head(queued_from[trade_messages_queue_key]))
    /\ UNCHANGED <<received, events_from, funding_queue, classified, feedCall>>
    /\ UNCHANGED <<self_trading_pairs, loopVars, bookVars, fundVars>>

\* listen_for_order_book_diffs: diff_event = await message_queue.get();
\* await self._parse_order_book_diff_message(raw_message=diff_event, message_queue=output);
\* the next message is taken when the call for the one before it has returned
ListenForOrderBookDiffs ==
    /\ ~DiffCallSuspended
    /\ TakeMessage(diff_messages_queue_key)
    /\ DiffCallBegins(Head(message_queue[diff_messages_queue_key]),
                      Head(queued_from[diff_messages_queue_key]))
    /\ UNCHANGED <<received, events_from>>
    /\ UNCHANGED <<last_tracking_nonce, diff_queue, snapshots, assigned, bookCall>>
    /\ UNCHANGED <<self_trading_pairs, loopVars, feedVars, fundVars>>

\* listen_for_funding_info: funding_info_event = await message_queue.get();
\* await self._parse_funding_info_message(raw_message=funding_info_event, message_queue=output);
\* the next message is taken when the call for the one before it has returned
ListenForFundingInfo ==
    /\ ~FundingCallSuspended
    /\ TakeMessage(funding_info_messages_queue_key)
    /\ FundingCallBegins(Head(message_queue[funding_info_messages_queue_key]),
                         Head(queued_from[funding_info_messages_queue_key]))
    /\ UNCHANGED <<received, events_from>>
    /\ UNCHANGED <<trade_queue, funding_queue, classified, tradeCall>>
    /\ UNCHANGED <<self_trading_pairs, loopVars, bookVars, fundVars>>

StreamNext ==
    \/ ConnectOk \/ ConnectFail
    \/ SubscribeSendOk \/ SubscribeSendFail
    \/ RecvMessage \/ RecvMessageRaises \/ RecvTimeout \/ RecvReturn \/ RecvFail
    \/ PingOk \/ PingFail
    \/ SleepOk
    \/ FinallyNoWs \/ DisconnectOk
    \/ ListenForTrades
    \/ TradePut
    \/ ListenForOrderBookDiffs
    \/ DiffLookupReturns
    \/ ListenForFundingInfo
    \/ FundingLookupReturns

StreamInit ==
    /\ self_trading_pairs = TradingPairs
    /\ LifeInit
    /\ BookIdle
    /\ FeedIdle
    /\ FundIdle

SpecStream == StreamInit /\ [][StreamNext]_vars

\* =========================================================================
\* get_funding_info: three REST requests gathered into one FundingInfo
\* =========================================================================
\* the requests in the order _request_complete_funding_info appends them to tasks
FundingRequests == <<"index_price", "mark_price", "funding_data">>

\* what the REST endpoints answer: index tickers, mark price, funding rate
RestResponses(i) ==
    CASE i = 1 -> { [data |-> << [idxPx |-> v] >>] : v \in {"100", "102"} }
      [] i = 2 -> { [data |-> << [markPx |-> v] >>] : v \in {"101", "103"} }
      [] i = 3 -> { [data |-> << [nextFundingTime |-> "2000", nextFundingRate |-> "0.0001"] >>],
                    [data |-> << [nextFundingTime |-> "3000", nextFundingRate |-> "-0.0002"] >>] }

\* the errors execute_request raises, told apart by the request that raised them
RestErrors(i) ==
    { [type |-> t, request |-> FundingRequests[i]] : t \in {"IOError", "TimeoutError"} }

\* Decimal(str(v)) of a string of digits with an optional leading minus sign and
\* an optional decimal point: the decimal number as mantissa * 10^exponent
DecimalOfStr(v) ==
    LET negative == Len(v) > 0 /\ SubSeq(v, 1, 1) = "-"
        body == IF negative THEN SubSeq(v, 2, Len(v)) ELSE v
        sign == IF negative THEN -1 ELSE 1
        points == { i \in 1..Len(body) : SubSeq(body, i, i) = "." }
    IN  IF points = {}
        THEN [mantissa |-> sign * DigitsValue(body), exponent |-> 0]
        ELSE LET p == CHOOSE i \in points : TRUE IN
             [mantissa |-> sign * DigitsValue(SubSeq(body, 1, p - 1)
                                               \o SubSeq(body, p + 1, Len(body))),
              exponent |-> p - Len(body)]

\* int(v) of a string of decimal digits
IntOfStr(v) == DigitsValue(v)

\* get_funding_info: the FundingInfo built from the gathered responses
FundingInfo(trading_pair, funding_info_response) ==
    LET index_price == funding_info_response[1]["data"][1]
        mark_price == funding_info_response[2]["data"][1]
        funding_data == funding_info_response[3]["data"][1]
    IN  [trading_pair |-> trading_pair,
         index_price |-> DecimalOfStr(index_price["idxPx"]),
         mark_price |-> DecimalOfStr(mark_price["markPx"]),
         next_funding_utc_timestamp |-> IntOfStr(funding_data["nextFundingTime"]),
         rate |-> DecimalOfStr(funding_data["nextFundingRate"])]

TasksIn(state) == { i \in DOMAIN tasks : tasks[i].state = state }

\* get_funding_info(trading_pair) up to "await asyncio.gather(*tasks)": the three
\* execute_request coroutines are created in order and gathered, none has run yet
GetFundingInfo ==
    /\ fundPc = "idle"
    /\ \E k \in DOMAIN TradingPairs : fundPair' = TradingPairs[k]
    /\ tasks' = [i \in DOMAIN FundingRequests |-> [state |-> "scheduled"]]
    /\ fundPc' = "gather"
    /\ UNCHANGED <<issued, settled, funding_info, fundExc>>
    /\ UNCHANGED <<self_trading_pairs, lifeVars, histVars, bookVars, feedVars>>

\* a gather whose tasks run one after the other
ExecuteRequest_AfterPrevious(i) ==
    /\ i \in TasksIn("scheduled")
    /\ \A j \in DOMAIN tasks : j < i => tasks[j].state \in {"done", "failed"}
    /\ tasks' = [tasks EXCEPT ![i] = [state |-> "inflight"]]
    /\ issued' = Append(issued, [request |-> i, inflight |-> TasksIn("inflight")])
    /\ UNCHANGED <<fundPc, fundPair, settled, funding_info, fundExc>>
    /\ UNCHANGED <<self_trading_pairs, lifeVars, histVars, bookVars, feedVars>>

\* a gathered task starts: rest_assistant.execute_request(...) sends its request
ExecuteRequest(i) ==
    /\ i \in TasksIn("scheduled")
    /\ tasks' = [tasks EXCEPT ![i] = [state |-> "inflight"]]
    /\ issued' = Append(issued, [request |-> i, inflight |-> TasksIn("inflight")])
    /\ UNCHANGED <<fundPc, fundPair, settled, funding_info, fundExc>>
    /\ UNCHANGED <<self_trading_pairs, lifeVars, histVars, bookVars, feedVars>>

\* the response of a request arrives: its task is done
ResponseArrives(i) ==
    /\ i \in TasksIn("inflight")
    /\ \E response \in RestResponses(i) :
         tasks' = [tasks EXCEPT ![i] = [state |-> "done", result |-> response]]
    /\ settled' = Append(settled, i)
    /\ UNCHANGED <<fundPc, fundPair, issued, funding_info, fundExc>>
    /\ UNCHANGED <<self_trading_pairs, lifeVars, histVars, bookVars, feedVars>>

\* a request fails: its task ends with the exception; gather cancels no other task
RequestFails(i) ==
    /\ i \in TasksIn("inflight")
    /\ \E error \in RestErrors(i) :
         tasks' = [tasks EXCEPT ![i] = [state |-> "failed", exception |-> error]]
    /\ settled' = Append(settled, i)
    /\ UNCHANGED <<fundPc, fundPair, issued, funding_info, fundExc>>
    /\ UNCHANGED <<self_trading_pairs, lifeVars, histVars, bookVars, feedVars>>

\* all three tasks are done: gather returns their results in the order of tasks,
\* and get_funding_info returns the FundingInfo built from them
GatherReturns ==
    /\ fundPc = "gather"
    /\ TasksIn("done") = DOMAIN tasks
    /\ funding_info' = Set(FundingInfo(fundPair, [i \in DOMAIN tasks |-> tasks[i].result]))
    /\ fundPc' = "returned"
    /\ UNCHANGED <<fundPair, tasks, issued, settled, fundExc>>
    /\ UNCHANGED <<self_trading_pairs, lifeVars, histVars, bookVars, feedVars>>

\* the first of the failed tasks, in the order the tasks settled
FirstFailed ==
    LET failed == SelectSeq(settled, LAMBDA i : tasks[i].state = "failed")
    IN  failed[1]

\* a get_funding_info that answers a failed request with a FundingInfo without values
GatherRaises_ReturnsPartial ==
    /\ fundPc = "gather"
    /\ TasksIn("failed") # {}
    /\ funding_info' = Set([trading_pair |-> fundPair])
    /\ fundPc' = "returned"
    /\ UNCHANGED <<fundPair, tasks, issued, settled, fundExc>>
    /\ UNCHANGED <<self_trading_pairs, lifeVars, histVars, bookVars, feedVars>>

\* a task failed: gather raises the exception of the first task that failed, and
\* it goes through _request_complete_funding_info and get_funding_info uncaught
GatherRaises ==
    /\ fundPc = "gather"
    /\ TasksIn("failed") # {}
    /\ fundExc' = Set(tasks[FirstFailed].exception)
    /\ fundPc' = "raised"
    /\ UNCHANGED <<fundPair, tasks, issued, settled, funding_info>>
    /\ UNCHANGED <<self_trading_pairs, lifeVars, histVars, bookVars, feedVars>>

FundNext ==
    \/ GetFundingInfo
    \/ \E i \in DOMAIN FundingRequests :
          ExecuteRequest(i) \/ ResponseArrives(i) \/ RequestFails(i)
    \/ GatherReturns
    \/ GatherRaises

FundInit ==
    /\ self_trading_pairs = TradingPairs
    /\ LifeInit
    /\ BookIdle
    /\ FeedIdle
    /\ FundIdle

SpecFunding == FundInit /\ [][FundNext]_vars

\* ------------------------------------------------------------------ helpers
Range(s) == {s[i] : i \in 1..Len(s)}

OfKind(kind) == SelectSeq(assigned, LAMBDA a : a.kind = kind)

Pings(n) == [i \in 1..n |-> PingRequest]

TryBody == {"connect", "subscribe", "recv", "ping"}

\* ---------------------------------------------------------------- claims
\* C1: after a non-cancellation failure of connect, of a subscribe send or of
\* message pumping the loop enters the backoff (the try body is left only into
\* the sleep, or by a cancellation), the next connect attempt is preceded by
\* exactly one completed delay of 5 seconds, and messages are pumped only on
\* the newest handle, after the three subscribe requests were all sent on it.
C1_LeavesTryBodyIntoBackoff ==
    (pc \in TryBody /\ pc' \notin TryBody) =>
        \/ pc' = "sleep" /\ failures' = failures + 1 /\ delays' = <<>>
        \/ pc' = "finally" /\ exc' = "CancelledError"

C1_State ==
    /\ (pc = "connect" /\ retrying) => delays = <<BACKOFF_SECONDS>>
    /\ pc = "sleep" => (retrying /\ delays = <<>>)
    /\ pc \in {"recv", "ping"} =>
          /\ ws = handles
          /\ ws \notin Range(disconnects)
          /\ ws \in subscribedOn
          /\ SubSeq(sent, 1, 3) = SubscribeRequests(self_trading_pairs)
    /\ pumpedOn \subseteq subscribedOn

C1_BackoffThenResubscribe == []C1_State /\ [][C1_LeavesTryBodyIntoBackoff]_vars

\* the loop failed on one connection, slept 5 s once, and pumps on the next one
C1_Witness ==
    /\ pc = "recv"
    /\ failures = 1
    /\ delays = <<BACKOFF_SECONDS>>
    /\ pumpedOn = {1, 2}
    /\ ws = 2

\* C2: while streaming, each idle timeout is answered by exactly one "ping" on
\* the current connection: after n timeouts whose pings were sent, the handle
\* has carried the three subscribe requests and n pings and nothing else, it is
\* still the open handle, and a timeout or ping step changes neither the
\* handle, the failure count, the delays nor the disconnects.
C2_State ==
    pc \in {"recv", "ping"} =>
        /\ sent = SubscribeRequests(self_trading_pairs)
                    \o Pings(IF pc = "recv" THEN timeouts ELSE timeouts - 1)
        /\ open = {ws}

C2_Step ==
    /\ (pc = "recv" /\ timeouts' = timeouts + 1) =>
          /\ pc' = "ping"
          /\ UNCHANGED <<ws, handles, open, sent, failures, delays, disconnects>>
    /\ (pc = "ping" /\ pc' = "recv") =>
          /\ sent' = Append(sent, PingRequest)
          /\ UNCHANGED <<ws, handles, open, timeouts, failures, delays, disconnects>>

C2_TimeoutSendsOnePing == []C2_State /\ [][C2_Step]_vars

\* two idle timeouts in a row on the first connection, both pings sent
C2_Witness ==
    /\ pc = "recv"
    /\ timeouts = 2
    /\ sent = SubscribeRequests(self_trading_pairs) \o Pings(2)
    /\ handles = 1
    /\ failures = 0

\* C3 (as claimed): the lifecycle loop is left only after a cancellation was
\* delivered; no failure of a step makes it exit.
C3_ExitsOnlyByCancellation ==
    pc \in {"raised", "done"} => cancelled

\* C4 (as claimed): a cancellation delivered while connecting, subscribing,
\* streaming, pinging or sleeping starts no further connect, subscribe, receive
\* or delay, and the caller of listen_for_subscriptions receives CancelledError.
C4_CancellationReachesCaller ==
    cancelledAt \in (TryBody \cup {"sleep"}) =>
        /\ pc \in {"finally", "raised", "done"}
        /\ pc = "done" => callerExc = "CancelledError"

\* C5 (as claimed): every handle that connected is released when the loop leaves
\* the state that holds it: no handle is open when the next connection attempt
\* starts, and none is open when a failure or a cancellation has left the loop;
\* disconnect has been awaited on every handle that connected.
C5_HandlesReleased ==
    /\ pc = "connect" => (open = {} /\ connected \subseteq Range(disconnects))
    /\ pc \in {"raised", "done"} =>
          /\ connected \subseteq Range(disconnects)
          /\ open = {}

\* C6: over any interleaving of snapshot fetches and diff normalizations the
\* update ids, in the order they were assigned, are strictly increasing, and
\* they are the ids the Snapshot and Diff events carry.
C6_UpdateIdsStrictlyIncrease ==
    /\ \A i, j \in 1..Len(assigned) :
          i < j => assigned[i].update_id < assigned[j].update_id
    /\ Len(diff_queue) = Len(OfKind("diff"))
    /\ \A i \in 1..Len(diff_queue) :
          diff_queue[i].content.update_id = OfKind("diff")[i].update_id
    /\ Len(snapshots) = Len(OfKind("snapshot"))
    /\ \A i \in 1..Len(snapshots) :
          snapshots[i].content.update_id = OfKind("snapshot")[i].update_id

\* a diff, a snapshot with the same wire ts, then a diff with an earlier wire ts
C6_Witness ==
    /\ Len(assigned) = 3
    /\ assigned[1].kind = "diff" /\ assigned[1].ts = "15"
    /\ assigned[1].update_id = 14
    /\ assigned[2].kind = "snapshot" /\ assigned[2].ts = "15"
    /\ assigned[3].kind = "diff" /\ assigned[3].ts = "1"
    /\ diff_queue[2].content.update_id = snapshots[1].content.update_id + 1

\* C8: a diff normalization of a payload whose action is absent or is not
\* "update" returns with the queue as it was; one whose action is "update"
\* awaits its symbol lookup and then appends exactly one Diff event, whose pair,
\* bids, asks and timestamp are those of the first data record, however many
\* records follow it.  No other step changes the queue.
C8_State ==
    /\ DiffCallSuspended =>
          /\ diff_event_type(diffCall.raw) = "update"
          /\ ENABLED DiffLookupReturns
    /\ (diffCall # NoCall /\ diff_event_type(diffCall.raw) # "update") => ~diffCall.pending

C8_DiffStep ==
    IF DiffCallSuspended /\ ~DiffCallSuspended'
    THEN LET first == diffCall.raw["data"][1] IN
         /\ Len(diff_queue') = Len(diff_queue) + 1
         /\ SubSeq(diff_queue', 1, Len(diff_queue)) = diff_queue
         /\ LET e == diff_queue'[Len(diff_queue')] IN
              /\ e.type = "DIFF"
              /\ e.content.trading_pair = "BTC-USDT"
              /\ e.content.bids = PriceLevels(first["bids"])
              /\ e.content.asks = PriceLevels(first["asks"])
              /\ e.timestamp = Seconds(ParseInt(first["ts"]), 6)
    ELSE diff_queue' = diff_queue

C8_DiffOnlyOnUpdateFirstRecord == []C8_State /\ [][C8_DiffStep]_vars

\* an "update" payload with two data records was normalized into one event
C8_Witness ==
    /\ diffCall # NoCall
    /\ ~diffCall.pending
    /\ diff_event_type(diffCall.raw) = "update"
    /\ Len(diffCall.raw["data"]) = 2
    /\ Len(diff_queue) = 1

\* C7: a trade normalization of a payload with k data entries appends exactly
\* k Trade events to the queue, the i-th built from the i-th entry: its trade
\* id, size, price, timestamp (ts milliseconds) and side, "buy" as the BUY tag
\* and "sell" as the SELL tag.  After i turns of its loop the first i events are
\* on the queue, behind what the queue held before the call; the call goes on
\* while entries are left and puts nothing after the k-th.
C7_TradePerEntryInOrder ==
    tradeCall # NoCall =>
        LET data == tradeCall.raw["data"]
            n0 == Len(tradeCall.before)
        IN  /\ tradeCall.done \in 0..Len(data)
            /\ (ENABLED TradePut) <=> tradeCall.done < Len(data)
            /\ Len(trade_queue) = n0 + tradeCall.done
            /\ SubSeq(trade_queue, 1, n0) = tradeCall.before
            /\ \A i \in 1..tradeCall.done :
                 LET e == trade_queue[n0 + i]
                     d == data[i]
                 IN  /\ e.type = "TRADE"
                     /\ e.content.trade_id = d["tradeId"]
                     /\ e.content.amount = d["sz"]
                     /\ e.content.price = d["px"]
                     /\ e.timestamp = ParseInt(d["ts"]) * 1000
                     /\ d["side"] = "buy" => e.content.trade_type = TradeType_BUY
                     /\ d["side"] = "sell" => e.content.trade_type = TradeType_SELL

\* a buy and then a sell in one payload, appended behind an earlier event
C7_Witness ==
    /\ tradeCall # NoCall
    /\ Len(tradeCall.raw["data"]) = 2
    /\ tradeCall.done = 2
    /\ tradeCall.raw["data"][1]["side"] = "buy"
    /\ tradeCall.raw["data"][1]["tradeId"] = "t1"
    /\ tradeCall.raw["data"][2]["side"] = "sell"
    /\ tradeCall.raw["data"][2]["tradeId"] = "t2"
    /\ tradeCall.before = <<PriorTrade>>
    /\ Len(trade_queue) = 3

\* C9: a funding normalization of a "delta" payload appends one update record
\* per entry of the update array, in order, each with exactly the fields set
\* whose source key the entry holds (and set to that key's converted value);
\* a payload of another type leaves the queue as it was.  The records are put
\* when the symbol lookup the call awaits has returned.
C9_FieldSetIffKeyPresent(field, key, r, e) ==
    /\ (r[field] # Unset) <=> (key \in DOMAIN e)

C9_FundingSparseUpdates ==
    feedCall.fn = "funding" =>
        LET raw == feedCall.raw
            entries == raw["data"]["update"]
            n0 == Len(feedCall.before)
        IN  IF raw["type"] = "delta" /\ feedCall.pending
            THEN /\ funding_queue = feedCall.before
                 /\ ENABLED FundingLookupReturns
            ELSE IF raw["type"] = "delta"
            THEN /\ Len(funding_queue) = n0 + Len(entries)
                 /\ SubSeq(funding_queue, 1, n0) = feedCall.before
                 /\ \A i \in 1..Len(entries) :
                      LET r == funding_queue[n0 + i]
                          e == entries[i]
                      IN  /\ r.trading_pair = "BTC-USDT"
                          /\ C9_FieldSetIffKeyPresent("index_price", "index_price", r, e)
                          /\ C9_FieldSetIffKeyPresent("mark_price", "mark_price", r, e)
                          /\ C9_FieldSetIffKeyPresent("next_funding_utc_timestamp",
                                                      "next_funding_time", r, e)
                          /\ C9_FieldSetIffKeyPresent("rate", "predicted_funding_rate_e6", r, e)
                          /\ "index_price" \in DOMAIN e => r.index_price = Set(100)
                          /\ "mark_price" \in DOMAIN e => r.mark_price = Set(101)
                          /\ "next_funding_time" \in DOMAIN e =>
                                r.next_funding_utc_timestamp = Set(60)
                          /\ "predicted_funding_rate_e6" \in DOMAIN e =>
                                r.rate = Set([units |-> 25, unit |-> "Decimal(1e-6)"])
            ELSE /\ funding_queue = feedCall.before
                 /\ ~feedCall.pending

\* a delta with an entry holding only mark_price, then an entry holding all four keys
C9_Witness ==
    /\ feedCall.fn = "funding"
    /\ ~feedCall.pending
    /\ feedCall.raw["type"] = "delta"
    /\ Len(feedCall.raw["data"]["update"]) = 2
    /\ DOMAIN feedCall.raw["data"]["update"][1] = {"mark_price"}
    /\ DOMAIN feedCall.raw["data"]["update"][2] = DOMAIN FundingWire
    /\ Len(funding_queue) = 2
    /\ funding_queue[1].mark_price = Set(101)
    /\ funding_queue[1].index_price = Unset

\* C10: the classifier returns no channel for every payload that has a
\* top-level "success" key, whatever its value and its other fields.
C10_SuccessKeyIsUnroutable ==
    (feedCall.fn = "classify" /\ "success" \in DOMAIN feedCall.raw) =>
        classified = NoChannel

\* a payload with "success" and the topic of the trades channel was classified
C10_Witness ==
    /\ feedCall.fn = "classify"
    /\ feedCall.raw = [success |-> FALSE, topic |-> <<"trades", "BTC-USDT-SWAP">>]
    /\ classified = NoChannel

\* the payload is trade, diff or funding data: no "success" key, and a topic whose
\* channel part is one of the three channels the classifier knows
IsMarketData(event_message) ==
    /\ "success" \notin DOMAIN event_message
    /\ "topic" \in DOMAIN event_message
    /\ Front(event_message["topic"]) \in
          {WS_TRADES_CHANNEL, WS_ORDER_BOOK_400_DEPTH_100_MS_EVENTS_CHANNEL,
           WS_INSTRUMENTS_INFO_CHANNEL}

\* C11 (as claimed): for every payload that is not trade, diff or funding data
\* (an acknowledgement, an error payload, a payload without a topic, a payload of
\* an unknown channel) the classifier returns the unroutable result; it does not
\* raise.
C11_UnroutableWithoutRaising ==
    (feedCall.fn = "classify" /\ ~IsMarketData(feedCall.raw)) =>
        classified = NoChannel

\* the channels of the subscribe requests, in the order the claim gives
C12_Channels ==
    << WS_TRADES_ALL_CHANNEL, WS_ORDER_BOOK_400_DEPTH_100_MS_EVENTS_CHANNEL,
       WS_INSTRUMENTS_INFO_CHANNEL >>

\* C12: on every connection the requests sent while subscribing are, in order,
\* the trades, the order book and the instruments request, each with one
\* {channel, instId} entry per instrument in the order of the instrument list;
\* after these three only pings are sent.  A subscribe step sends one request or
\* none; a step that leaves subscribing without all three sent sends nothing
\* more on that connection and hands the failure to the loop (backoff) or
\* re-raises the cancellation.
C12_State ==
    /\ \A k \in 1..Len(sent) :
          k <= 3 =>
              /\ DOMAIN sent[k] = {"op", "args"}
              /\ sent[k].op = "subscribe"
              /\ Len(sent[k].args) = Len(self_trading_pairs)
              /\ \A i \in 1..Len(self_trading_pairs) :
                    sent[k].args[i] =
                        [channel |-> C12_Channels[k],
                         instId |-> exchange_symbol_associated_to_pair(self_trading_pairs[i])]
    /\ Len(sent) > 3 => SubSeq(sent, 4, Len(sent)) = Pings(Len(sent) - 3)
    /\ pc = "subscribe" => Len(sent) < 3
    /\ pc \in {"recv", "ping"} => Len(sent) >= 3

C12_Step ==
    /\ pc = "subscribe" =>
          \/ sent' = sent /\ pc' = "sleep" /\ failures' = failures + 1
          \/ sent' = sent /\ pc' = "finally" /\ exc' = "CancelledError"
          \/ Len(sent') = Len(sent) + 1 /\ SubSeq(sent', 1, Len(sent)) = sent
                /\ pc' = (IF Len(sent') = 3 THEN "recv" ELSE "subscribe")
    /\ pc \in {"sleep", "finally", "raised", "done"} => sent' = sent

C12_ThreeRequestsInOrder == []C12_State /\ [][C12_Step]_vars

\* after a failure on the first connection, on the second connection the three
\* requests for two instruments, given as ETH then BTC, went out
C12_Witness ==
    /\ self_trading_pairs = <<"ETH-USDT", "BTC-USDT">>
    /\ pc = "recv"
    /\ handles = 2
    /\ failures = 1
    /\ subscribedOn = {2}
    /\ Len(sent) = 3
    /\ sent[2].args[1].instId = "ETH-USDT-SWAP"
    /\ sent[2].args[2].instId = "BTC-USDT-SWAP"

\* C13: the three requests of get_funding_info are in flight together: while
\* the gather is awaited a task that has not started yet can start whatever the
\* state of the other two.  Whatever the order the responses arrived
\* in, the FundingInfo returned has index_price from the index ticker response
\* (idxPx), mark_price from the mark price response (markPx) and
\* next_funding_utc_timestamp and rate from the funding rate response.
C13_ConcurrentAndByPosition ==
    /\ \A i \in DOMAIN tasks : tasks[i].state = "scheduled" => ENABLED ExecuteRequest(i)
    /\ fundPc = "returned" =>
          /\ Len(funding_info) = 1
          /\ funding_info[1].trading_pair = fundPair
          /\ funding_info[1].index_price = DecimalOfStr(tasks[1].result["data"][1]["idxPx"])
          /\ funding_info[1].mark_price = DecimalOfStr(tasks[2].result["data"][1]["markPx"])
          /\ funding_info[1].next_funding_utc_timestamp =
                IntOfStr(tasks[3].result["data"][1]["nextFundingTime"])
          /\ funding_info[1].rate =
                DecimalOfStr(tasks[3].result["data"][1]["nextFundingRate"])

\* all three requests were in flight at once, the responses arrived funding rate
\* first and index price last, and the FundingInfo of the spec's example came back
C13_Witness ==
    /\ fundPc = "returned"
    /\ Len(issued) = 3
    /\ issued[3].inflight = {issued[1].request, issued[2].request}
    /\ settled = <<3, 2, 1>>
    /\ funding_info =
          Set([trading_pair |-> fundPair,
               index_price |-> [mantissa |-> 100, exponent |-> 0],
               mark_price |-> [mantissa |-> 101, exponent |-> 0],
               next_funding_utc_timestamp |-> 2000,
               rate |-> [mantissa |-> 1, exponent |-> -4]])

\* C14: when a request of get_funding_info fails, get_funding_info raises the
\* exception of the request that failed (of the first that failed when several
\* do) and returns no FundingInfo, whatever the state of the other two tasks; it
\* returns a FundingInfo only when no request failed, and no request is sent more
\* than once.
C14_FailsWithTheFailedRequestsError ==
    /\ fundPc = "returned" => (TasksIn("failed") = {} /\ fundExc = Unset)
    /\ fundPc = "raised" =>
          /\ funding_info = Unset
          /\ TasksIn("failed") # {}
          /\ fundExc = Set(tasks[FirstFailed].exception)
          /\ fundExc[1].request = FundingRequests[FirstFailed]
    /\ (fundPc = "gather" /\ TasksIn("failed") # {}) => ~ENABLED GatherReturns
    /\ Len(issued) <= Len(FundingRequests)
    /\ \A a, b \in 1..Len(issued) : a # b => issued[a].request # issued[b].request

\* the mark price request failed after the index price response had arrived and
\* while the funding rate request was still pending; get_funding_info raised its error
C14_Witness ==
    /\ fundPc = "raised"
    /\ settled = <<1, 2>>
    /\ tasks[1].state = "done"
    /\ tasks[2].state = "failed"
    /\ tasks[3].state = "inflight"
    /\ fundExc = Set([type |-> "TimeoutError", request |-> "mark_price"])
    /\ funding_info = Unset

\* T milliseconds as a time of the model (microseconds): T/1000 seconds
Milliseconds(T) == T * 1000

\* C15 (as claimed): a snapshot fetch whose response's first record has ts = T
\* milliseconds returns one Snapshot event for the requested pair, with the
\* timestamp T/1000 seconds, the bids and asks of the response as (price, size)
\* pairs in received order, and an update id above 0.
C15_SnapshotTimestampInSeconds ==
    /\ Len(snapshots) = Len(OfKind("snapshot"))
    /\ bookCall.fn = "snapshot" =>
          LET snapshot_data == bookCall.raw["data"][1]
              e == snapshots[Len(snapshots)]
          IN  /\ e.type = "SNAPSHOT"
              /\ e.content.trading_pair = TradingPairs[1]
              /\ e.content.bids = PriceLevels(snapshot_data["bids"])
              /\ e.content.asks = PriceLevels(snapshot_data["asks"])
              /\ e.content.update_id > 0
              /\ e.timestamp = Milliseconds(ParseInt(snapshot_data["ts"]))

\* a trade entry carrying the wire timestamp ts
TradeEntryAt(ts) ==
    [instId |-> "BTC-USDT-SWAP", tradeId |-> "t1", side |-> "buy",
     sz |-> "3", px |-> "10", ts |-> ts]

\* C16 (as claimed): the diff normalizer takes the first record's ts as
\* milliseconds: the Diff event's timestamp is ts/1000 seconds, the same as the
\* timestamp of a Trade event with that wire ts, and the nonce sequencer is
\* handed ts*1000 microseconds, so the update id is at least ts*1000.
C16_DiffTimestampInMilliseconds ==
    \A i \in 1..Len(diff_queue) :
        LET a == OfKind("diff")[i] IN
        /\ diff_queue[i].timestamp = Milliseconds(ParseInt(a.ts))
        /\ diff_queue[i].timestamp = trade_message(TradeEntryAt(a.ts)).timestamp
        /\ a.update_id >= Milliseconds(ParseInt(a.ts))

\* the classification of the payload fails on a missing field
ClassificationFails(data) == channel_originating_message(data) = KeyError

\* C17 (as claimed): a stream message whose classification fails is dropped:
\* the step that receives it puts nothing on a queue and leaves the loop
\* streaming on the same open connection, with no failure counted, no backoff
\* and no disconnect, so that later messages of the connection are processed.
C17_Step ==
    (Len(received') = Len(received) + 1 /\ ClassificationFails(received'[Len(received')])) =>
        /\ pc' = "recv"
        /\ message_queue' = message_queue
        /\ UNCHANGED <<ws, open, handles, failures, delays, disconnects>>

C17_MalformedMessageIsDropped == [][C17_Step]_vars

\* the output queue of a channel
OutputQueue(channel) ==
    CASE channel = trade_messages_queue_key -> trade_queue
      [] channel = diff_messages_queue_key -> diff_queue
      [] channel = funding_info_messages_queue_key -> funding_queue

\* the event is one the channel's normalizer builds from the message
BuiltFrom(channel, event, raw_message) ==
    CASE channel = trade_messages_queue_key ->
            event \in Range(trade_messages(raw_message))
      [] channel = diff_messages_queue_key ->
            event = diff_message(raw_message, event.content.update_id)
      [] channel = funding_info_messages_queue_key ->
            event \in Range(funding_info_updates(raw_message))

\* C18: on each output queue the events are in the order their messages came off
\* the wire: every event was built from a received message of that channel, the
\* positions of these messages in the receive order never decrease along the
\* queue, and the messages still waiting in the channel's internal queue were
\* all received later than those already turned into events, oldest first.
C18_PerQueueWireOrder ==
    \A k \in QueueKeys :
        /\ Len(events_from[k]) = Len(OutputQueue(k))
        /\ Len(queued_from[k]) = Len(message_queue[k])
        /\ \A i, j \in 1..Len(events_from[k]) :
              i < j => events_from[k][i] <= events_from[k][j]
        /\ \A i, j \in 1..Len(queued_from[k]) :
              i < j => queued_from[k][i] < queued_from[k][j]
        /\ \A i \in 1..Len(events_from[k]) : \A j \in 1..Len(queued_from[k]) :
              events_from[k][i] < queued_from[k][j]
        /\ \A i \in 1..Len(events_from[k]) :
              LET n == events_from[k][i] IN
              /\ n \in 1..Len(received)
              /\ channel_originating_message(received[n]) = k
              /\ BuiltFrom(k, OutputQueue(k)[i], received[n])
        /\ \A j \in 1..Len(queued_from[k]) :
              message_queue[k][j] = received[queued_from[k][j]]

\* two trade payloads, with an idle timeout, a failure and a reconnect on the way:
\* the two prints of the first are on the trade queue before the two of the second
C18_Witness ==
    /\ handles = 2
    /\ failures = 1
    /\ timeouts = 1
    /\ Len(received) = 2
    /\ events_from[trade_messages_queue_key] = <<1, 1, 2, 2>>
    /\ Len(trade_queue) = 4
    /\ trade_queue[2].content.trade_id = "t2"
    /\ trade_queue[3].content.trade_id = "t1"

\* C19: at most one websocket handle is connected at any time, and it is the
\* newest one obtained; a connection attempt starts only when no handle is
\* open, also after an iteration that failed and went through the backoff.
C19_AtMostOneConnected ==
    /\ Cardinality(open) <= 1
    /\ open \subseteq {handles}
    /\ pc = "connect" => open = {}
    /\ pc \in {"subscribe", "recv", "ping"} => open = {ws}

\* the first connection failed and was backed off; the second handle is the
\* only one connected
C19_Witness ==
    /\ pc = "subscribe"
    /\ connected = {1, 2}
    /\ failures = 1
    /\ delays = <<BACKOFF_SECONDS>>
    /\ disconnects = <<1>>
    /\ open = {2}

\* C20 (as claimed): every disconnect is issued on the handle connected in the
\* current iteration: only handles whose connect succeeded are disconnected,
\* none of them twice, and a disconnect step targets the newest handle obtained.
C20_State ==
    /\ Range(disconnects) \subseteq connected
    /\ \A i, j \in 1..Len(disconnects) : i # j => disconnects[i] # disconnects[j]

C20_Step ==
    Len(disconnects') = Len(disconnects) + 1 =>
        /\ disconnects'[Len(disconnects')] = handles
        /\ handles \in open

C20_DisconnectsTargetCurrentHandle == []C20_State /\ [][C20_Step]_vars

====
